---- MODULE Spec2Model ----
(***************************************************************************)
(* A model of the ceramic pocket knife (cpk): the anchor-request load      *)
(* generator of src/cas.rs, the command dispatch of src/lib.rs, the        *)
(* car-from-blocks argument parser of src/cli.rs, the CAR and CID commands *)
(* of src/ipld.rs, the ping loop of src/p2p.rs, the CSV dump of            *)
(* src/parquet.rs and the encode and decode commands of src/multibase.rs.  *)
(* Each part has its own variables and its own specification; the          *)
(* variables of the other parts stay at their initial values while one     *)
(* part runs.                                                              *)
(***************************************************************************)
EXTENDS Integers, Sequences, FiniteSets, TLC

VARIABLES
    \* ---- load_gen (src/cas.rs) ----
    lg_count,     \* args.count
    lg_rate,      \* args.rate as an Option: {} is None, {r} is Some(r)
    lg_pc,        \* "entry", "running", "ok" (returned Ok(())), "panicked"
    now,          \* the clock (Instant::now()), in nanoseconds
    lg_start,     \* throttled_stream's `start`
    lg_interval,  \* throttled_stream's `interval`, in nanoseconds
    lg_pulled,    \* number of items for_each_concurrent has taken from the stream
    lg_fut,       \* the futures in flight: item -> [st, due]
    lg_counter,   \* the AtomicU64 counter
    lg_out,       \* the lines printed: <<[item, count]>>
    lg_sent,      \* the anchor requests started, in order: <<item>>
    \* ---- throttled_stream's closure, one item (src/cas.rs) ----
    th_count, th_rate, th_start, th_i, th_due, th_sentAt, th_pc,
    \* ---- run (src/lib.rs) ----
    rn_features,  \* the cargo features the binary was built with
    rn_cmd,       \* args.command
    rn_pc,        \* "entry", "match", "done"
    rn_idx,       \* the category block of run that is reached next
    rn_tried,     \* the categories whose Operation::try_from was called
    rn_ran,       \* the categories whose run was called
    rn_result,    \* what run returned
    rn_stdout,    \* whether the `stdout` writer was written to
    rn_procOut,   \* whether the process's std::io::stdout was written to
    \* ---- CarBlockValue::from_str (src/cli.rs) ----
    cb_arg,       \* the argument s, a sequence of characters
    cb_res,       \* the Result returned
    cb_pc,        \* "arg", "parsed", "dropped"
    \* ---- car-from-blocks (src/ipld.rs) ----
    cf_blocks,    \* args.blocks: <<[root, cid, path]>>
    cf_pc,        \* "entry", "loop", "done"
    cf_i,         \* the block the for loop is at
    cf_car,       \* the in-memory CAR: [header: Option roots, blocks]
    cf_stdout,    \* what stdout received: None, or Some(CAR)
    cf_result,    \* what run returned
    \* ---- car-extract (src/ipld.rs) ----
    ce_cid,       \* args.cid, a text
    ce_stdin,     \* the CAR on stdin: [valid, blocks, truncated]
    ce_pc,        \* "entry", "loop", "done"
    ce_find,      \* find_cid
    ce_i,         \* the block next_block yields next
    ce_written,   \* the data of each write_all to stdout, in order
    ce_result,    \* what run returned
    \* ---- car-inspect (src/ipld.rs) ----
    ci_metadataOnly, \* args.metadata_only
    ci_stdin,     \* the CAR on stdin: [valid, roots, blocks, truncated]
    ci_pc,        \* "entry", "loop", "content", "done"
    ci_roots,     \* roots, read from the header
    ci_i,         \* the block next_block yields next
    ci_out,       \* the writes to stdout, in order
    ci_result,    \* what run returned
    \* ---- cid-inspect (src/ipld.rs) ----
    cn_arg,       \* args.cid, a text
    cn_stdin,     \* the bytes on stdin
    cn_pc,        \* "entry", "done"
    cn_read,      \* whether stdin was read
    cn_out,       \* the writes to stdout, in order
    cn_result,    \* what run returned
    \* ---- ping (src/p2p.rs) ----
    pg_argCount,  \* args.count
    pg_count,     \* count
    pg_pc,        \* "loop", "done"
    pg_events,    \* the events swarm.select_next_some() has yielded
    pg_out,       \* the lines written to stdout, in order
    \* ---- parquet-dump, CSV (src/parquet.rs) ----
    pq_files,     \* args.files, each the record batches its stream yields
    pq_pc,        \* "entry", "csv", "done"
    pq_batches,   \* batches
    pq_header,    \* header
    pq_i,         \* the batch the for loop is at
    pq_out,       \* the buffers written to stdout, in order
    pq_result,    \* what run returned
    \* ---- multibase encode and decode (src/multibase.rs) ----
    mb_op,        \* the encode subcommand
    mb_input,     \* the bytes on the stdin of the encode subcommand
    mb_lead,      \* white space put before the encoded text
    mb_trail,     \* white space put after the encoded text
    mb_pc,        \* "entry", "encoded", "decoded"
    mb_encoded,   \* the stdout of the encode subcommand
    mb_decoded    \* base-decode: Ok(the bytes written to stdout) or Err

lgVars == <<lg_count, lg_rate, lg_pc, now, lg_start, lg_interval, lg_pulled,
            lg_fut, lg_counter, lg_out, lg_sent>>
thVars == <<th_count, th_rate, th_start, th_i, th_due, th_sentAt, th_pc>>
rnVars == <<rn_features, rn_cmd, rn_pc, rn_idx, rn_tried, rn_ran, rn_result,
            rn_stdout, rn_procOut>>
cbVars == <<cb_arg, cb_res, cb_pc>>
cfVars == <<cf_blocks, cf_pc, cf_i, cf_car, cf_stdout, cf_result>>
ceVars == <<ce_cid, ce_stdin, ce_pc, ce_find, ce_i, ce_written, ce_result>>
ciVars == <<ci_metadataOnly, ci_stdin, ci_pc, ci_roots, ci_i, ci_out,
            ci_result>>
cnVars == <<cn_arg, cn_stdin, cn_pc, cn_read, cn_out, cn_result>>
pgVars == <<pg_argCount, pg_count, pg_pc, pg_events, pg_out>>
pqVars == <<pq_files, pq_pc, pq_batches, pq_header, pq_i, pq_out,
            pq_result>>
mbVars == <<mb_op, mb_input, mb_lead, mb_trail, mb_pc, mb_encoded,
            mb_decoded>>

vars == <<lgVars, thVars, rnVars, cbVars, cfVars, ceVars, ciVars, cnVars,
            pgVars, pqVars, mbVars>>

\* what each part leaves alone
lgOther == <<thVars, rnVars, cbVars, cfVars, ceVars, ciVars, cnVars, pgVars,
            pqVars, mbVars>>
thOther == <<lgVars, rnVars, cbVars, cfVars, ceVars, ciVars, cnVars, pgVars,
            pqVars, mbVars>>
rnOther == <<lgVars, thVars, cbVars, cfVars, ceVars, ciVars, cnVars, pgVars,
            pqVars, mbVars>>
cbOther == <<lgVars, thVars, rnVars, cfVars, ceVars, ciVars, cnVars, pgVars,
            pqVars, mbVars>>
cfOther == <<lgVars, thVars, rnVars, cbVars, ceVars, ciVars, cnVars, pgVars,
            pqVars, mbVars>>
ceOther == <<lgVars, thVars, rnVars, cbVars, cfVars, ciVars, cnVars, pgVars,
            pqVars, mbVars>>
ciOther == <<lgVars, thVars, rnVars, cbVars, cfVars, ceVars, cnVars, pgVars,
            pqVars, mbVars>>
cnOther == <<lgVars, thVars, rnVars, cbVars, cfVars, ceVars, ciVars, pgVars,
            pqVars, mbVars>>
pgOther == <<lgVars, thVars, rnVars, cbVars, cfVars, ceVars, ciVars, cnVars,
            pqVars, mbVars>>
pqOther == <<lgVars, thVars, rnVars, cbVars, cfVars, ceVars, ciVars, cnVars,
            pgVars, mbVars>>
mbOther == <<lgVars, thVars, rnVars, cbVars, cfVars, ceVars, ciVars, cnVars,
            pgVars, pqVars>>

-----------------------------------------------------------------------------
(* Bounds of the model *)
MaxCount == 3
MaxNow == 1
MaxArgLen == 4
MaxBlocks == 2
MaxArchive == 3
MaxEvents == 5
MaxBytes == 2

(* Program constants *)
NanosPerSec == 1000000000

None == {}
Some(x) == {x}
Unwrap(o) == CHOOSE x \in o : TRUE

Range(s) == {s[k] : k \in DOMAIN s}
Max(S) == CHOOSE x \in S : \A y \in S : y <= x

-----------------------------------------------------------------------------
(* throttled_stream *)

\* Duration::from_nanos(1_000_000_000_u64 / rate)
Interval(rate) == NanosPerSec \div rate

\* A u64 stream index i is written [hi |-> h, lo |-> l] and stands for
\* h * 2^32 + l with l < 2^32 (2^32 does not fit TLC's 32-bit
\* integers).  `i as u32` keeps the low 32 bits.
U64(h, l) == [hi |-> h, lo |-> l]
AsU32(i) == i.lo

\* start + interval * (i as u32)
DelayTime(start, interval, i) == start + interval * AsU32(i)

\* the deadline of the Sleep the stream yields for item i, built at instant t
SleepDeadline(rate, start, interval, i, t) ==
    IF rate # None THEN DelayTime(start, interval, i) ELSE t + 0

\* stream::iter(0..count): the number of items of the stream
StreamLenInclusive(count) == count + 1
StreamLen(count) == count

\* for_each_concurrent(None, ...): with no limit a new item is always taken
LimitAllowsOne(inflight) == inflight < 1
LimitAllows(inflight) == TRUE

-----------------------------------------------------------------------------
(* load_gen *)

LgRates == {None, Some(0), Some(300000000), Some(NanosPerSec),
            Some(2 * NanosPerSec)}

LgInit ==
    /\ lg_count \in 0..MaxCount
    /\ lg_rate \in LgRates
    /\ lg_pc = "entry"
    /\ now \in 0..MaxNow
    /\ lg_start = 0
    /\ lg_interval = 0
    /\ lg_pulled = 0
    /\ lg_fut = << >>
    /\ lg_counter = 1
    /\ lg_out = << >>
    /\ lg_sent = << >>

LgIdle ==
    /\ lg_count = 0
    /\ lg_rate = None
    /\ lg_pc = "idle"
    /\ now = 0
    /\ lg_start = 0
    /\ lg_interval = 0
    /\ lg_pulled = 0
    /\ lg_fut = << >>
    /\ lg_counter = 1
    /\ lg_out = << >>
    /\ lg_sent = << >>

Pending == {i \in DOMAIN lg_fut : lg_fut[i].st \in {"sleeping", "inflight"}}

\* load_gen's early return
LoadGenReturnEarly ==
    /\ lg_pc = "entry"
    /\ (lg_count = 0) \/ (lg_rate = Some(0))
    /\ lg_pc' = "ok"
    /\ UNCHANGED lgOther
    /\ UNCHANGED <<lg_count, lg_rate, now, lg_start, lg_interval, lg_pulled,
                   lg_fut, lg_counter, lg_out, lg_sent>>

\* throttled_stream(args.count, args.rate).await
LoadGenStart ==
    /\ lg_pc = "entry"
    /\ ~((lg_count = 0) \/ (lg_rate = Some(0)))
    /\ lg_pc' = "running"
    /\ IF lg_rate # None
       THEN /\ lg_start' = now
            /\ lg_interval' = Interval(Unwrap(lg_rate))
       ELSE UNCHANGED <<lg_start, lg_interval>>
    /\ UNCHANGED lgOther
    /\ UNCHANGED <<lg_count, lg_rate, now, lg_pulled, lg_fut, lg_counter,
                   lg_out, lg_sent>>

\* for_each_concurrent takes the next item of the stream and starts its future
Pull ==
    /\ lg_pc = "running"
    /\ lg_pulled < StreamLen(lg_count)
    /\ LimitAllows(Cardinality(Pending))
    /\ lg_fut' = lg_fut @@ (lg_pulled :>
           [st |-> "sleeping",
            due |-> SleepDeadline(lg_rate, lg_start, lg_interval,
                                  U64(0, lg_pulled), now)])
    /\ lg_pulled' = lg_pulled + 1
    /\ UNCHANGED lgOther
    /\ UNCHANGED <<lg_count, lg_rate, lg_pc, now, lg_start, lg_interval,
                   lg_counter, lg_out, lg_sent>>

\* sleep_future.await ends and anchor_request(...) is started
Wake(i) ==
    /\ lg_pc = "running"
    /\ i \in DOMAIN lg_fut
    /\ lg_fut[i].st = "sleeping"
    /\ now >= lg_fut[i].due
    /\ lg_fut' = [lg_fut EXCEPT ![i].st = "inflight"]
    /\ lg_sent' = Append(lg_sent, i)
    /\ UNCHANGED lgOther
    /\ UNCHANGED <<lg_count, lg_rate, lg_pc, now, lg_start, lg_interval,
                   lg_pulled, lg_counter, lg_out>>

\* the line println! writes for item i: "count: {}" is the value fetch_add
\* returns, the counter before the addition
ResultLineByItem(i) == [item |-> i, count |-> i + 1]
ResultLine(i) == [item |-> i, count |-> lg_counter]

\* .unwrap() of an Err: the panic unwinds out of load_gen
UnwrapErrRetry(i) ==
    /\ lg_fut' = [lg_fut EXCEPT ![i].st = "sleeping"]
    /\ UNCHANGED <<lg_pc, lg_out, lg_counter>>
UnwrapErr(i) ==
    /\ lg_pc' = "panicked"
    /\ lg_fut' = [lg_fut EXCEPT ![i].st = "failed"]
    /\ UNCHANGED <<lg_out, lg_counter>>

\* counter.fetch_add(1, Ordering::SeqCst): the counter after the addition
\* (the value returned, the counter before it, is what ResultLine prints)
FetchAddNothing(c) == c
FetchAdd(c) == c + 1

\* anchor_request(...).await.unwrap(), then the println! with fetch_add
Respond(i, ok) ==
    /\ lg_pc = "running"
    /\ i \in DOMAIN lg_fut
    /\ lg_fut[i].st = "inflight"
    /\ IF ok
       THEN /\ lg_out' = Append(lg_out, ResultLine(i))
            /\ lg_counter' = FetchAdd(lg_counter)
            /\ lg_fut' = [lg_fut EXCEPT ![i].st = "done"]
            /\ UNCHANGED lg_pc
       ELSE UnwrapErr(i)
    /\ UNCHANGED lgOther
    /\ UNCHANGED <<lg_count, lg_rate, now, lg_start, lg_interval, lg_pulled,
                   lg_sent>>

\* the stream is exhausted and every future has completed: Ok(())
LoadGenReturn ==
    /\ lg_pc = "running"
    /\ lg_pulled >= StreamLen(lg_count)
    /\ Pending = {}
    /\ lg_pc' = "ok"
    /\ UNCHANGED lgOther
    /\ UNCHANGED <<lg_count, lg_rate, now, lg_start, lg_interval, lg_pulled,
                   lg_fut, lg_counter, lg_out, lg_sent>>

\* the instants the clock may jump to: the next nanosecond (while the clock
\* is young) and the nanoseconds around each pending deadline
TickTargets ==
    (IF now < MaxNow THEN {now + 1} ELSE {})
    \cup UNION {{lg_fut[i].due - 1, lg_fut[i].due, lg_fut[i].due + 1} :
                   i \in {j \in DOMAIN lg_fut : lg_fut[j].st = "sleeping"}}

Tick ==
    /\ lg_pc \in {"entry", "running"}
    /\ \E t \in TickTargets :
          /\ t > now
          /\ now' = t
    /\ UNCHANGED lgOther
    /\ UNCHANGED <<lg_count, lg_rate, lg_pc, lg_start, lg_interval, lg_pulled,
                   lg_fut, lg_counter, lg_out, lg_sent>>

LgNext ==
    \/ LoadGenReturnEarly
    \/ LoadGenStart
    \/ Pull
    \/ \E i \in 0..MaxCount : Wake(i)
    \/ \E i \in 0..MaxCount, ok \in BOOLEAN : Respond(i, ok)
    \/ LoadGenReturn
    \/ Tick

-----------------------------------------------------------------------------
(* one item of throttled_stream, at full integer width *)

ThIndices == {U64(h, l) : h \in 0..1, l \in 0..MaxCount}
ThRates == {None, Some(300000000), Some(500000000), Some(NanosPerSec),
            Some(2 * NanosPerSec)}

U64Less(a, b) == a.hi < b.hi \/ (a.hi = b.hi /\ a.lo < b.lo)

ThInit ==
    /\ th_i \in ThIndices
    /\ th_count \in {U64(th_i.hi, th_i.lo + 1), U64(th_i.hi, th_i.lo + 2)}
    /\ th_rate \in ThRates
    /\ th_start \in 0..MaxNow
    /\ th_due = 0
    /\ th_sentAt = 0
    /\ th_pc = "stream"

ThIdle ==
    /\ th_i = U64(0, 0)
    /\ th_count = U64(0, 0)
    /\ th_rate = None
    /\ th_start = 0
    /\ th_due = 0
    /\ th_sentAt = 0
    /\ th_pc = "idle"

\* the stream's closure for item th_i: the Sleep and its deadline.  With no
\* rate the stream is built and polled at th_start.
ThMap ==
    /\ th_pc = "stream"
    /\ U64Less(th_i, th_count)
    /\ th_due' = SleepDeadline(th_rate, th_start,
                     IF th_rate # None THEN Interval(Unwrap(th_rate)) ELSE 0,
                     th_i, th_start)
    /\ th_pc' = "sleeping"
    /\ UNCHANGED thOther
    /\ UNCHANGED <<th_count, th_rate, th_start, th_i, th_sentAt>>

\* the Sleep completes at its deadline or later and the request is sent
ThWake ==
    /\ th_pc = "sleeping"
    /\ \E late \in 0..1 : th_sentAt' = Max({th_due, th_start}) + late
    /\ th_pc' = "sent"
    /\ UNCHANGED thOther
    /\ UNCHANGED <<th_count, th_rate, th_start, th_i, th_due>>

ThNext == ThMap \/ ThWake

-----------------------------------------------------------------------------
(* run: the dispatch of a command to its category (src/lib.rs) *)

Features == {"multibase", "ipld", "ceramic", "multihash", "p2p", "parquet"}

\* the variants of cli::Command, each with the feature that compiles it in
\* ("" for Completion, which has no cfg attribute)
CommandFeature ==
    [Completion |-> "",
     BaseGuess |-> "multibase", BaseDecode |-> "multibase",
     Base2 |-> "multibase", Base8 |-> "multibase", Base10 |-> "multibase",
     Base16 |-> "multibase", Base16Upper |-> "multibase",
     Base32Hex |-> "multibase", Base32HexUpper |-> "multibase",
     Base32 |-> "multibase", Base32Upper |-> "multibase",
     Base32Z |-> "multibase", Base36 |-> "multibase",
     Base36Upper |-> "multibase", Base58Flickr |-> "multibase",
     Base58Btc |-> "multibase", Base64 |-> "multibase",
     Base64Url |-> "multibase",
     MultihashInspect |-> "multihash",
     StreamIdCreate |-> "ceramic", StreamIdInspect |-> "ceramic",
     StreamIdGenerate |-> "ceramic", StreamIdFromBytes |-> "ceramic",
     EventIdGenerate |-> "ceramic", EventIdInspect |-> "ceramic",
     EventInspect |-> "ceramic", InterestInspect |-> "ceramic",
     DidKeyGenerate |-> "ceramic", PeerIdGenerate |-> "ceramic",
     CidGenerate |-> "ipld", CidAsBytes |-> "ipld", CidInspect |-> "ipld",
     CidFromBytes |-> "ipld", CidFromData |-> "ipld",
     DagJsonToCbor |-> "ipld", DagCborToJson |-> "ipld",
     DagJoseToJson |-> "ipld", DagCborInspect |-> "ipld",
     DagCborIndex |-> "ipld", CarInspect |-> "ipld", CarExtract |-> "ipld",
     CarFromBlocks |-> "ipld", CarToBlocks |-> "ipld",
     P2pPing |-> "p2p", P2pIdentify |-> "p2p",
     ParquetDump |-> "parquet", ParquetInspect |-> "parquet"]

Commands == DOMAIN CommandFeature

\* the variants each category's Operation::try_from maps to Ok
MultibaseAccepts ==
    {"BaseGuess", "BaseDecode", "Base2", "Base8", "Base10", "Base16",
     "Base16Upper", "Base32Hex", "Base32HexUpper", "Base32", "Base32Upper",
     "Base32Z", "Base36", "Base36Upper", "Base58Flickr", "Base58Btc",
     "Base64", "Base64Url"}
IpldAccepts ==
    {"CidGenerate", "CidInspect", "CidFromBytes", "CidFromData",
     "DagJsonToCbor", "DagCborToJson", "DagJoseToJson", "DagCborInspect",
     "DagCborIndex", "CarInspect", "CarExtract", "CarFromBlocks"}
CeramicAccepts ==
    {"StreamIdCreate", "StreamIdInspect", "StreamIdGenerate", "StreamCreate",
     "EventIdGenerate", "EventIdDecode", "InterestDecode", "DidKeyGenerate",
     "PeerIdGenerate", "SqlDbGenerate"}
MultihashAccepts == {"MultihashInspect"}
P2pAccepts == {"P2pPing", "P2pIdentify"}
ParquetAccepts == {"ParquetDump", "ParquetInspect"}

\* <category>::Operation::try_from(cmd) is Ok
Accepts(cat, cmd) ==
    CASE cat = "multibase" -> cmd \in MultibaseAccepts
      [] cat = "ipld"      -> cmd \in IpldAccepts
      [] cat = "ceramic"   -> cmd \in CeramicAccepts
      [] cat = "multihash" -> cmd \in MultihashAccepts
      [] cat = "p2p"       -> cmd \in P2pAccepts
      [] cat = "parquet"   -> cmd \in ParquetAccepts

\* the category blocks of run, in the order of the source
CategoryOrderSwapped ==
    <<"multibase", "ceramic", "ipld", "multihash", "p2p", "parquet">>
CategoryOrder ==
    <<"multibase", "ipld", "ceramic", "multihash", "p2p", "parquet">>

RnInit ==
    /\ rn_features \in SUBSET Features
    /\ rn_cmd \in {c \in Commands : CommandFeature[c] \in rn_features \cup {""}}
    /\ rn_pc = "entry"
    /\ rn_idx = 1
    /\ rn_tried = << >>
    /\ rn_ran = << >>
    /\ rn_result = "none"
    /\ rn_stdout = FALSE
    /\ rn_procOut = FALSE

RnIdle ==
    /\ rn_features = {}
    /\ rn_cmd = "Completion"
    /\ rn_pc = "idle"
    /\ rn_idx = 1
    /\ rn_tried = << >>
    /\ rn_ran = << >>
    /\ rn_result = "none"
    /\ rn_stdout = FALSE
    /\ rn_procOut = FALSE

\* if let Command::Completion(args): generate to std::io::stdout, Ok(())
RunCompletion ==
    /\ rn_pc = "entry"
    /\ rn_cmd = "Completion"
    /\ rn_procOut' = TRUE
    /\ rn_result' = "Ok"
    /\ rn_pc' = "done"
    /\ UNCHANGED rnOther
    /\ UNCHANGED <<rn_features, rn_cmd, rn_idx, rn_tried, rn_ran, rn_stdout>>

\* let cmd = args.command
RunBeginMatch ==
    /\ rn_pc = "entry"
    /\ rn_cmd # "Completion"
    /\ rn_pc' = "match"
    /\ UNCHANGED rnOther
    /\ UNCHANGED <<rn_features, rn_cmd, rn_idx, rn_tried, rn_ran, rn_result,
                   rn_stdout, rn_procOut>>

\* a category block that the build's features leave out
RunSkipCategory ==
    /\ rn_pc = "match"
    /\ rn_idx <= Len(CategoryOrder)
    /\ CategoryOrder[rn_idx] \notin rn_features
    /\ rn_idx' = rn_idx + 1
    /\ UNCHANGED rnOther
    /\ UNCHANGED <<rn_features, rn_cmd, rn_pc, rn_tried, rn_ran, rn_result,
                   rn_stdout, rn_procOut>>

\* Ok(op) => return <category>::run(op, stdin, stdout).await; the category's
\* run may write to stdout and returns Ok or an error
RunCategoryAccepts ==
    /\ rn_pc = "match"
    /\ rn_idx <= Len(CategoryOrder)
    /\ CategoryOrder[rn_idx] \in rn_features
    /\ Accepts(CategoryOrder[rn_idx], rn_cmd)
    /\ rn_tried' = Append(rn_tried, CategoryOrder[rn_idx])
    /\ rn_ran' = Append(rn_ran, CategoryOrder[rn_idx])
    /\ \E r \in {"Ok", "Err"}, w \in BOOLEAN :
          /\ rn_result' = r
          /\ rn_stdout' = w
    /\ rn_pc' = "done"
    /\ UNCHANGED rnOther
    /\ UNCHANGED <<rn_features, rn_cmd, rn_idx, rn_procOut>>

\* Err(cmd) => cmd: on to the next category
RunCategoryRejects ==
    /\ rn_pc = "match"
    /\ rn_idx <= Len(CategoryOrder)
    /\ CategoryOrder[rn_idx] \in rn_features
    /\ ~Accepts(CategoryOrder[rn_idx], rn_cmd)
    /\ rn_tried' = Append(rn_tried, CategoryOrder[rn_idx])
    /\ rn_idx' = rn_idx + 1
    /\ UNCHANGED rnOther
    /\ UNCHANGED <<rn_features, rn_cmd, rn_pc, rn_ran, rn_result, rn_stdout,
                   rn_procOut>>

\* Err(anyhow!("failed to match command"))
RunNoMatch ==
    /\ rn_pc = "match"
    /\ rn_idx > Len(CategoryOrder)
    /\ rn_result' = "failed to match command"
    /\ rn_pc' = "done"
    /\ UNCHANGED rnOther
    /\ UNCHANGED <<rn_features, rn_cmd, rn_idx, rn_tried, rn_ran, rn_stdout,
                   rn_procOut>>

RnNext ==
    \/ RunCompletion
    \/ RunBeginMatch
    \/ RunSkipCategory
    \/ RunCategoryAccepts
    \/ RunCategoryRejects
    \/ RunNoMatch

-----------------------------------------------------------------------------
(* CIDs, multihashes and data *)

\* block data: byte strings
Datas == {<<1>>, <<2, 3>>}

\* the hash functions of multihash_codetable::Code that the model uses;
\* Code::try_from fails for any other code
SupportedCodes == {"sha2-256", "sha3-256"}
HashCodes == SupportedCodes \cup {"unsupported"}

\* MultihashDigest::digest(&code, &data): an ideal hash, two inputs never
\* collide and two hash functions never agree
Digest(code, data) == [code |-> code, digest |-> <<code, data>>]

\* Cid::new_v1(codec, hash)
MkCid(codec, hash) == [codec |-> codec, hash |-> hash]

\* the text forms Cid::from_str parses, written as one character each: "b"
\* and "z" are two encodings of one CID, "c" is the text of another CID
CidOfText ==
    [b |-> MkCid("raw", Digest("sha2-256", <<1>>)),
     z |-> MkCid("raw", Digest("sha2-256", <<1>>)),
     c |-> MkCid("raw", Digest("sha3-256", <<1>>))]

Ok(v) == [ok |-> TRUE, val |-> v]
Err(e) == [ok |-> FALSE, err |-> e]

\* Cid::from_str
CidFromStr(t) ==
    IF Len(t) = 1 /\ t[1] \in DOMAIN CidOfText
    THEN Ok(CidOfText[t[1]])
    ELSE Err("cid")

-----------------------------------------------------------------------------
(* CarBlockValue::from_str (src/cli.rs) *)

\* the characters of an argument: the root marker, the separator, a
\* character of a path that no CID text has, and the CID texts
ArgChars == {"@", ":", "/", "b", "z"}

RECURSIVE TrimStartMatches(_, _)
\* s.trim_start_matches(pat): every leading occurrence of pat is removed
TrimStartMatches(s, pat) ==
    IF s # << >> /\ s[1] = pat THEN TrimStartMatches(Tail(s), pat) ELSE s

\* s.split_once(delim): None, or the text before and after the last / the
\* first occurrence of delim
RSplitOnce(s, delim) ==
    LET at == {k \in DOMAIN s : s[k] = delim} IN
    IF at = {} THEN None
    ELSE LET k == CHOOSE j \in at : \A m \in at : m <= j IN
         Some(<<SubSeq(s, 1, k - 1), SubSeq(s, k + 1, Len(s))>>)
SplitOnce(s, delim) ==
    LET at == {k \in DOMAIN s : s[k] = delim} IN
    IF at = {} THEN None
    ELSE LET k == CHOOSE j \in at : \A m \in at : j <= m IN
         Some(<<SubSeq(s, 1, k - 1), SubSeq(s, k + 1, Len(s))>>)

\* impl FromStr for CarBlockValue
CarBlockValueFromStr(s) ==
    LET root == s # << >> /\ s[1] = "@"
        split == SplitOnce(TrimStartMatches(s, "@"), ":")
    IN  IF split = None
        THEN Err("car block must be in the form cid:path/to/block")
        ELSE LET cid == CidFromStr(Unwrap(split)[1])
                 path == Unwrap(split)[2]
             IN  IF ~cid.ok THEN cid
                 ELSE Ok([root |-> root, cid |-> cid.val, path |-> path])

RECURSIVE SeqsUpTo(_, _)
\* the sequences over S of length at most n
SeqsUpTo(S, n) ==
    IF n = 0 THEN {<< >>}
    ELSE LET shorter == SeqsUpTo(S, n - 1) IN
         shorter \cup {Append(t, x) : t \in shorter, x \in S}

CbInit ==
    /\ cb_arg \in SeqsUpTo(ArgChars, MaxArgLen)
    /\ cb_res = Err("")
    /\ cb_pc = "arg"

CbIdle ==
    /\ cb_arg = << >>
    /\ cb_res = Err("")
    /\ cb_pc = "idle"

\* clap parses one positional argument with CarBlockValue::from_str
CarBlockParse ==
    /\ cb_pc = "arg"
    /\ cb_res' = CarBlockValueFromStr(cb_arg)
    /\ cb_pc' = "parsed"
    /\ UNCHANGED cbOther
    /\ UNCHANGED cb_arg

\* the parsed value is dropped
CarBlockDrop ==
    /\ cb_pc = "parsed"
    /\ cb_pc' = "dropped"
    /\ UNCHANGED cbOther
    /\ UNCHANGED <<cb_arg, cb_res>>

CbNext == CarBlockParse \/ CarBlockDrop

-----------------------------------------------------------------------------
(* car-from-blocks (src/ipld.rs) *)

\* the files of the file system: path -> content; tokio::fs::read fails for
\* any other path
FileData == [f1 |-> <<1>>, f2 |-> <<2, 3>>]
Paths == DOMAIN FileData \cup {"nofile"}

\* the CIDs of the arguments: right and wrong digests, under each hash code
CfCids ==
    {MkCid("raw", [code |-> c, digest |-> Digest(a, <<1>>).digest]) :
        c \in HashCodes, a \in SupportedCodes}
    \cup {MkCid("raw", Digest("sha2-256", <<2, 3>>))}

CarBlockValues == [root : BOOLEAN, cid : CfCids, path : Paths]

\* args.blocks.iter().flat_map(|block| block.root.then_some(block.cid))
Roots(blocks) ==
    LET rooted == SelectSeq(blocks, LAMBDA b : b.root) IN
    [k \in DOMAIN rooted |-> rooted[k].cid]

\* CarWriter::write: the header goes out before the first block
CarWriterWritePrepend(car, roots, cid, data) ==
    [header |-> Some(roots),
     blocks |-> <<[cid |-> cid, data |-> data]>> \o car.blocks]
CarWriterWrite(car, roots, cid, data) ==
    [header |-> Some(roots),
     blocks |-> Append(car.blocks, [cid |-> cid, data |-> data])]

\* CarWriter::finish: the header goes out if no block was written
CarWriterFinish(car, roots) ==
    [header |-> Some(roots), blocks |-> car.blocks]

\* hash != *block.cid.hash() is false
HashMatchesAlways(hash, cid) == TRUE
HashMatches(hash, cid) == hash = cid.hash

CfInit ==
    /\ cf_blocks \in SeqsUpTo(CarBlockValues, MaxBlocks)
    /\ cf_pc = "entry"
    /\ cf_i = 1
    /\ cf_car = [header |-> None, blocks |-> << >>]
    /\ cf_stdout = None
    /\ cf_result = "none"

CfIdle ==
    /\ cf_blocks = << >>
    /\ cf_pc = "idle"
    /\ cf_i = 1
    /\ cf_car = [header |-> None, blocks |-> << >>]
    /\ cf_stdout = None
    /\ cf_result = "none"

\* let mut car = Vec::new(); roots; CarWriter::new(..)
CarFromBlocksStart ==
    /\ cf_pc = "entry"
    /\ cf_pc' = "loop"
    /\ UNCHANGED cfOther
    /\ UNCHANGED <<cf_blocks, cf_i, cf_car, cf_stdout, cf_result>>

\* tokio::fs::read(block.path).await? fails
CarFromBlocksReadFails ==
    /\ cf_pc = "loop"
    /\ cf_i <= Len(cf_blocks)
    /\ cf_blocks[cf_i].path \notin DOMAIN FileData
    /\ cf_result' = "Err: read"
    /\ cf_pc' = "done"
    /\ UNCHANGED cfOther
    /\ UNCHANGED <<cf_blocks, cf_i, cf_car, cf_stdout>>

\* multihash_codetable::Code::try_from(block.cid.hash().code())? fails
CarFromBlocksUnsupportedCode ==
    /\ cf_pc = "loop"
    /\ cf_i <= Len(cf_blocks)
    /\ cf_blocks[cf_i].path \in DOMAIN FileData
    /\ cf_blocks[cf_i].cid.hash.code \notin SupportedCodes
    /\ cf_result' = "Err: code"
    /\ cf_pc' = "done"
    /\ UNCHANGED cfOther
    /\ UNCHANGED <<cf_blocks, cf_i, cf_car, cf_stdout>>

\* bail!("Cid {} hash does not match hash of raw data", block.cid)
CarFromBlocksHashMismatch ==
    /\ cf_pc = "loop"
    /\ cf_i <= Len(cf_blocks)
    /\ cf_blocks[cf_i].path \in DOMAIN FileData
    /\ cf_blocks[cf_i].cid.hash.code \in SupportedCodes
    /\ ~HashMatches(Digest(cf_blocks[cf_i].cid.hash.code,
                            FileData[cf_blocks[cf_i].path]),
                     cf_blocks[cf_i].cid)
    /\ cf_result' = "Err: hash does not match"
    /\ cf_pc' = "done"
    /\ UNCHANGED cfOther
    /\ UNCHANGED <<cf_blocks, cf_i, cf_car, cf_stdout>>

\* writer.write(block.cid, data).await?
CarFromBlocksWrite ==
    /\ cf_pc = "loop"
    /\ cf_i <= Len(cf_blocks)
    /\ cf_blocks[cf_i].path \in DOMAIN FileData
    /\ cf_blocks[cf_i].cid.hash.code \in SupportedCodes
    /\ HashMatches(Digest(cf_blocks[cf_i].cid.hash.code,
                           FileData[cf_blocks[cf_i].path]),
                    cf_blocks[cf_i].cid)
    /\ cf_car' = CarWriterWrite(cf_car, Roots(cf_blocks), cf_blocks[cf_i].cid,
                                FileData[cf_blocks[cf_i].path])
    /\ cf_i' = cf_i + 1
    /\ UNCHANGED cfOther
    /\ UNCHANGED <<cf_blocks, cf_pc, cf_stdout, cf_result>>

\* writer.finish().await?; stdout.write_all(&car).await?; Ok(())
CarFromBlocksFinish ==
    /\ cf_pc = "loop"
    /\ cf_i > Len(cf_blocks)
    /\ cf_car' = CarWriterFinish(cf_car, Roots(cf_blocks))
    /\ cf_stdout' = Some(cf_car')
    /\ cf_result' = "Ok"
    /\ cf_pc' = "done"
    /\ UNCHANGED cfOther
    /\ UNCHANGED <<cf_blocks, cf_i>>

CfNext ==
    \/ CarFromBlocksStart
    \/ CarFromBlocksReadFails
    \/ CarFromBlocksUnsupportedCode
    \/ CarFromBlocksHashMismatch
    \/ CarFromBlocksWrite
    \/ CarFromBlocksFinish

-----------------------------------------------------------------------------
(* car-extract (src/ipld.rs) *)

\* the blocks an archive may hold: a CID with the data it is the hash of
ArchiveBlocks ==
    {[cid |-> MkCid("raw", Digest(a, d)), data |-> d] :
        a \in SupportedCodes, d \in {<<1>>}}
    \cup {[cid |-> MkCid("raw", Digest("sha2-256", << >>)), data |-> << >>]}

\* the texts given as args.cid
CeCidTexts == {<<"b">>, <<"z">>, <<"c">>, <<"/">>, << >>}

CeInit ==
    /\ ce_cid \in CeCidTexts
    /\ ce_stdin \in [valid : BOOLEAN,
                     blocks : SeqsUpTo(ArchiveBlocks, MaxArchive),
                     truncated : BOOLEAN]
    /\ ce_pc = "entry"
    /\ ce_find = None
    /\ ce_i = 1
    /\ ce_written = << >>
    /\ ce_result = "none"

CeIdle ==
    /\ ce_cid = << >>
    /\ ce_stdin = [valid |-> FALSE, blocks |-> << >>, truncated |-> FALSE]
    /\ ce_pc = "idle"
    /\ ce_find = None
    /\ ce_i = 1
    /\ ce_written = << >>
    /\ ce_result = "none"

\* Cid::from_str(&args.cid)? fails
CarExtractBadCid ==
    /\ ce_pc = "entry"
    /\ ~CidFromStr(ce_cid).ok
    /\ ce_result' = "Err: cid"
    /\ ce_pc' = "done"
    /\ UNCHANGED ceOther
    /\ UNCHANGED <<ce_cid, ce_stdin, ce_find, ce_i, ce_written>>

\* CarReader::new(stdin).await? fails: stdin holds no CAR header
CarExtractBadHeader ==
    /\ ce_pc = "entry"
    /\ CidFromStr(ce_cid).ok
    /\ ~ce_stdin.valid
    /\ ce_result' = "Err: car"
    /\ ce_pc' = "done"
    /\ UNCHANGED ceOther
    /\ UNCHANGED <<ce_cid, ce_stdin, ce_find, ce_i, ce_written>>

\* find_cid and the reader are ready
CarExtractStart ==
    /\ ce_pc = "entry"
    /\ CidFromStr(ce_cid).ok
    /\ ce_stdin.valid
    /\ ce_find' = Some(CidFromStr(ce_cid).val)
    /\ ce_pc' = "loop"
    /\ UNCHANGED ceOther
    /\ UNCHANGED <<ce_cid, ce_stdin, ce_i, ce_written, ce_result>>

\* the data written for a block the loop has read
ExtractBlock(cid, data) ==
    IF Some(cid) = ce_find THEN Append(ce_written, data) ELSE ce_written

\* while let Some((cid, data)) = reader.next_block().await?
CarExtractBlock ==
    /\ ce_pc = "loop"
    /\ ce_i <= Len(ce_stdin.blocks)
    /\ ce_written' = ExtractBlock(ce_stdin.blocks[ce_i].cid,
                                  ce_stdin.blocks[ce_i].data)
    /\ ce_i' = ce_i + 1
    /\ UNCHANGED ceOther
    /\ UNCHANGED <<ce_cid, ce_stdin, ce_pc, ce_find, ce_result>>

\* next_block() returns an error: the archive ends inside a block
CarExtractReadError ==
    /\ ce_pc = "loop"
    /\ ce_i > Len(ce_stdin.blocks)
    /\ ce_stdin.truncated
    /\ ce_result' = "Err: car"
    /\ ce_pc' = "done"
    /\ UNCHANGED ceOther
    /\ UNCHANGED <<ce_cid, ce_stdin, ce_find, ce_i, ce_written>>

\* next_block() returns None: Ok(())
CarExtractEnd ==
    /\ ce_pc = "loop"
    /\ ce_i > Len(ce_stdin.blocks)
    /\ ~ce_stdin.truncated
    /\ ce_result' = "Ok"
    /\ ce_pc' = "done"
    /\ UNCHANGED ceOther
    /\ UNCHANGED <<ce_cid, ce_stdin, ce_find, ce_i, ce_written>>

CeNext ==
    \/ CarExtractBadCid
    \/ CarExtractBadHeader
    \/ CarExtractStart
    \/ CarExtractBlock
    \/ CarExtractReadError
    \/ CarExtractEnd

-----------------------------------------------------------------------------
(* car-inspect (src/ipld.rs) *)

\* serde_ipld_dagcbor::from_slice on the byte strings of the model: 0x01 is
\* the integer 1, 0x31 the integer -18, and 0x02 0x03 is the integer 2
\* followed by a byte that belongs to nothing, an error
DagCborFromSlice(data) ==
    IF data = <<1>> THEN Ok([int |-> 1])
    ELSE IF data = <<49>> THEN Ok([int |-> 0 - 18])
    ELSE Err("dag-cbor")

\* serde_ipld_dagjson::from_slice: 0x31 is the text "1"; the other byte
\* strings of the model are not JSON
DagJsonFromSlice(data) ==
    IF data = <<49>> THEN Ok([int |-> 1]) ELSE Err("dag-json")

\* DagJoseCodec::decode_from_slice: a JOSE object is a DAG-CBOR map, which
\* none of the byte strings of the model is
DagJoseDecodeFromSlice(data) == Err("dag-jose")

\* serde_ipld_dagjson::to_vec of an integer: its decimal text
DagJsonToVec(ipld) ==
    IF ipld.int = 1 THEN <<49>> ELSE <<45, 49, 56>>

\* match cid.codec(): the Option<Ipld> of a block, or the decoder's error
DagData(cid, data) ==
    CASE cid.codec = "dag-cbor" ->
           LET r == DagCborFromSlice(data) IN
           IF r.ok THEN Ok(Some(r.val)) ELSE r
      [] cid.codec = "dag-json" ->
           LET r == DagJsonFromSlice(data) IN
           IF r.ok THEN Ok(Some(r.val)) ELSE r
      [] cid.codec = "dag-jose" ->
           LET r == DagJoseDecodeFromSlice(data) IN
           IF r.ok THEN Ok(Some(r.val)) ELSE r
      [] OTHER -> Ok(None)

\* fmt_cid of a version 1 CID: into_v1 is the CID itself and cannot fail
FmtCid(cid) ==
    [v1 |-> cid, version |-> "V1", codec |-> cid.codec,
     hashCode |-> cid.hash.code, hash |-> cid.hash.digest]

\* format!("Root: {}\nLength: {}\n", roots.contains(&cid), data.len())
RootLength(roots, cid, data) ==
    [root |-> cid \in Range(roots), length |-> Len(data)]

\* if !args.metadata_only
DecodesAlways(metadata_only) == TRUE
Decodes(metadata_only) == ~metadata_only

\* the blocks of the archives: a raw block, a DAG-CBOR block that decodes
\* and one that does not, a DAG-JSON block that decodes and a block with the
\* DAG-JOSE codec that does not
CiBlocks ==
    {[cid |-> MkCid("raw", Digest("sha2-256", <<1>>)), data |-> <<1>>],
     [cid |-> MkCid("dag-cbor", Digest("sha2-256", <<1>>)), data |-> <<1>>],
     [cid |-> MkCid("dag-cbor", Digest("sha2-256", <<2, 3>>)),
      data |-> <<2, 3>>],
     [cid |-> MkCid("dag-json", Digest("sha2-256", <<49>>)),
      data |-> <<49>>],
     [cid |-> MkCid("dag-jose", Digest("sha2-256", <<1>>)), data |-> <<1>>]}

\* the roots of the header
CiRoots ==
    {<< >>,
     <<MkCid("raw", Digest("sha2-256", <<1>>))>>,
     <<MkCid("dag-cbor", Digest("sha2-256", <<2, 3>>)),
       MkCid("dag-json", Digest("sha2-256", <<49>>))>>}

CiInit ==
    /\ ci_metadataOnly \in BOOLEAN
    /\ ci_stdin \in [valid : BOOLEAN,
                     roots : CiRoots,
                     blocks : SeqsUpTo(CiBlocks, MaxArchive),
                     truncated : BOOLEAN]
    /\ ci_pc = "entry"
    /\ ci_roots = << >>
    /\ ci_i = 1
    /\ ci_out = << >>
    /\ ci_result = "none"

CiIdle ==
    /\ ci_metadataOnly = FALSE
    /\ ci_stdin = [valid |-> FALSE, roots |-> << >>, blocks |-> << >>,
                   truncated |-> FALSE]
    /\ ci_pc = "idle"
    /\ ci_roots = << >>
    /\ ci_i = 1
    /\ ci_out = << >>
    /\ ci_result = "none"

\* CarReader::new(stdin).await? fails: stdin holds no CAR header
CarInspectBadHeader ==
    /\ ci_pc = "entry"
    /\ ~ci_stdin.valid
    /\ ci_result' = "Err: car"
    /\ ci_pc' = "done"
    /\ UNCHANGED ciOther
    /\ UNCHANGED <<ci_metadataOnly, ci_stdin, ci_roots, ci_i, ci_out>>

\* the reader is ready; roots = reader.header().roots().to_vec()
CarInspectStart ==
    /\ ci_pc = "entry"
    /\ ci_stdin.valid
    /\ ci_roots' = ci_stdin.roots
    /\ ci_pc' = "loop"
    /\ UNCHANGED ciOther
    /\ UNCHANGED <<ci_metadataOnly, ci_stdin, ci_i, ci_out, ci_result>>

\* next_block() yields a block: fmt_cid and the Root and Length lines are
\* written; the content is decoded next unless metadata_only
CarInspectMetadata ==
    /\ ci_pc = "loop"
    /\ ci_i <= Len(ci_stdin.blocks)
    /\ LET b == ci_stdin.blocks[ci_i] IN
       ci_out' = ci_out \o
                 <<[kind |-> "cid", text |-> FmtCid(b.cid)],
                   [kind |-> "meta",
                    text |-> RootLength(ci_roots, b.cid, b.data)]>>
    /\ IF Decodes(ci_metadataOnly)
       THEN ci_pc' = "content" /\ ci_i' = ci_i
       ELSE ci_pc' = "loop" /\ ci_i' = ci_i + 1
    /\ UNCHANGED ciOther
    /\ UNCHANGED <<ci_metadataOnly, ci_stdin, ci_roots, ci_result>>

\* from_slice(&data)? or decode_from_slice(&data)? fails
CarInspectDecodeFails ==
    /\ ci_pc = "content"
    /\ LET b == ci_stdin.blocks[ci_i] IN
       /\ ~DagData(b.cid, b.data).ok
       /\ ci_result' = "Err: " \o DagData(b.cid, b.data).err
    /\ ci_pc' = "done"
    /\ UNCHANGED ciOther
    /\ UNCHANGED <<ci_metadataOnly, ci_stdin, ci_roots, ci_i, ci_out>>

\* if let Some(dag_data) = dag_data: the DAG-JSON form and a newline
CarInspectContent ==
    /\ ci_pc = "content"
    /\ LET b == ci_stdin.blocks[ci_i]
           d == DagData(b.cid, b.data)
       IN
       /\ d.ok
       /\ d.val # None
       /\ ci_out' = ci_out \o
                    <<[kind |-> "content",
                       text |-> DagJsonToVec(Unwrap(d.val))],
                      [kind |-> "newline", text |-> <<10>>]>>
    /\ ci_i' = ci_i + 1
    /\ ci_pc' = "loop"
    /\ UNCHANGED ciOther
    /\ UNCHANGED <<ci_metadataOnly, ci_stdin, ci_roots, ci_result>>

\* _ => None: a codec car-inspect does not decode, nothing more is written
CarInspectNoContent ==
    /\ ci_pc = "content"
    /\ LET b == ci_stdin.blocks[ci_i]
           d == DagData(b.cid, b.data)
       IN
       /\ d.ok
       /\ d.val = None
    /\ ci_i' = ci_i + 1
    /\ ci_pc' = "loop"
    /\ UNCHANGED ciOther
    /\ UNCHANGED <<ci_metadataOnly, ci_stdin, ci_roots, ci_out, ci_result>>

\* next_block() returns an error: the archive ends inside a block
CarInspectReadError ==
    /\ ci_pc = "loop"
    /\ ci_i > Len(ci_stdin.blocks)
    /\ ci_stdin.truncated
    /\ ci_result' = "Err: car"
    /\ ci_pc' = "done"
    /\ UNCHANGED ciOther
    /\ UNCHANGED <<ci_metadataOnly, ci_stdin, ci_roots, ci_i, ci_out>>

\* next_block() returns None: Ok(())
CarInspectEnd ==
    /\ ci_pc = "loop"
    /\ ci_i > Len(ci_stdin.blocks)
    /\ ~ci_stdin.truncated
    /\ ci_result' = "Ok"
    /\ ci_pc' = "done"
    /\ UNCHANGED ciOther
    /\ UNCHANGED <<ci_metadataOnly, ci_stdin, ci_roots, ci_i, ci_out>>

CiNext ==
    \/ CarInspectBadHeader
    \/ CarInspectStart
    \/ CarInspectMetadata
    \/ CarInspectDecodeFails
    \/ CarInspectContent
    \/ CarInspectNoContent
    \/ CarInspectReadError
    \/ CarInspectEnd

-----------------------------------------------------------------------------
(* cid-inspect (src/ipld.rs) *)

\* the white space of the texts of the model: a space and a line feed
Whitespace == {" ", "\n"}

\* a byte that no UTF-8 text holds
NotUtf8 == "xff"

\* std::str::from_utf8, String::from_utf8
FromUtf8(data) ==
    IF NotUtf8 \in Range(data) THEN Err("utf8") ELSE Ok(data)

\* str::trim_end: the text up to its last character that is not white space
TrimBothEnds(s) ==
    LET keep == {k \in DOMAIN s : s[k] \notin Whitespace} IN
    IF keep = {} THEN << >>
    ELSE SubSeq(s, CHOOSE k \in keep : \A m \in keep : k <= m, Max(keep))
TrimEnd(s) ==
    LET keep == {k \in DOMAIN s : s[k] \notin Whitespace} IN
    IF keep = {} THEN << >> ELSE SubSeq(s, 1, Max(keep))

\* str::trim_start
TrimStart(s) ==
    LET keep == {k \in DOMAIN s : s[k] \notin Whitespace} IN
    IF keep = {} THEN << >>
    ELSE SubSeq(s, CHOOSE k \in keep : \A m \in keep : k <= m, Len(s))

\* str::trim: white space is removed at both ends
TrimNothing(s) == s
Trim(s) == TrimStart(TrimEnd(s))

\* the texts given as args.cid, "-" among them
CnArgs ==
    {<<"-">>, <<"b">>, <<"z">>, <<"c">>, <<"/">>, << >>, <<" ", "b">>,
     <<"-", "\n">>}

\* the bytes stdin may hold
CnBytes == {" ", "\n", "b", "c", NotUtf8}

CnInit ==
    /\ cn_arg \in CnArgs
    /\ cn_stdin \in SeqsUpTo(CnBytes, MaxArgLen)
    /\ cn_pc = "entry"
    /\ cn_read = FALSE
    /\ cn_out = << >>
    /\ cn_result = "none"

CnIdle ==
    /\ cn_arg = << >>
    /\ cn_stdin = << >>
    /\ cn_pc = "idle"
    /\ cn_read = FALSE
    /\ cn_out = << >>
    /\ cn_result = "none"

\* the rest of the arm once the text of the CID is known: Cid::from_str(..)?
\* and the write of fmt_cid
CidInspectWrite(text) ==
    LET cid == CidFromStr(text) IN
    IF cid.ok
    THEN cn_out' = <<FmtCid(cid.val)>> /\ cn_result' = "Ok"
    ELSE cn_out' = cn_out /\ cn_result' = "Err: " \o cid.err

\* args.cid == "-": stdin is read to its end, taken as UTF-8 and trimmed
CidInspectStdin ==
    /\ cn_pc = "entry"
    /\ cn_arg = <<"-">>
    /\ cn_read' = TRUE
    /\ LET str == FromUtf8(cn_stdin) IN
       IF str.ok
       THEN CidInspectWrite(Trim(str.val))
       ELSE cn_out' = cn_out /\ cn_result' = "Err: " \o str.err
    /\ cn_pc' = "done"
    /\ UNCHANGED cnOther
    /\ UNCHANGED <<cn_arg, cn_stdin>>

\* any other args.cid is the text of the CID
CidInspectArg ==
    /\ cn_pc = "entry"
    /\ cn_arg # <<"-">>
    /\ CidInspectWrite(cn_arg)
    /\ cn_pc' = "done"
    /\ UNCHANGED cnOther
    /\ UNCHANGED <<cn_arg, cn_stdin, cn_read>>

CnNext ==
    \/ CidInspectStdin
    \/ CidInspectArg

-----------------------------------------------------------------------------
(* ping (src/p2p.rs) *)

\* the swarm events that are neither a connection error nor a ping result
PgOtherEvents == {"Dialing", "ConnectionEstablished"}

PgInit ==
    /\ pg_argCount \in 0..MaxCount
    /\ pg_count = 0
    /\ pg_pc = "loop"
    /\ pg_events = << >>
    /\ pg_out = << >>

PgIdle ==
    /\ pg_argCount = 0
    /\ pg_count = 0
    /\ pg_pc = "idle"
    /\ pg_events = << >>
    /\ pg_out = << >>

\* SwarmEvent::OutgoingConnectionError: the dial failed
PingConnectionError ==
    /\ pg_pc = "loop"
    /\ Len(pg_events) < MaxEvents
    /\ "ConnectionEstablished" \notin Range(pg_events)
    /\ pg_events' = Append(pg_events, "OutgoingConnectionError")
    /\ pg_out' = Append(pg_out, "failed to connect")
    /\ pg_pc' = "done"
    /\ UNCHANGED pgOther
    /\ UNCHANGED <<pg_argCount, pg_count>>

\* ping::Event with result Ok(duration)
PingResponse ==
    /\ pg_pc = "loop"
    /\ Len(pg_events) < MaxEvents
    /\ "ConnectionEstablished" \in Range(pg_events)
    /\ pg_events' = Append(pg_events, "PingOk")
    /\ pg_out' = Append(pg_out, "response from")
    /\ pg_count' = pg_count + 1
    /\ pg_pc' = IF pg_count + 1 >= pg_argCount THEN "done" ELSE "loop"
    /\ UNCHANGED pgOther
    /\ UNCHANGED pg_argCount

\* ping::Event with result Err(err)
PingFailed ==
    /\ pg_pc = "loop"
    /\ Len(pg_events) < MaxEvents
    /\ "ConnectionEstablished" \in Range(pg_events)
    /\ pg_events' = Append(pg_events, "PingErr")
    /\ pg_out' = Append(pg_out, "ping failed")
    /\ pg_pc' = "done"
    /\ UNCHANGED pgOther
    /\ UNCHANGED <<pg_argCount, pg_count>>

\* _ => {}
PingOtherEvent ==
    /\ pg_pc = "loop"
    /\ Len(pg_events) < MaxEvents
    /\ \E ev \in PgOtherEvents :
          /\ ev = "Dialing" => "ConnectionEstablished" \notin Range(pg_events)
          /\ pg_events' = Append(pg_events, ev)
    /\ UNCHANGED pgOther
    /\ UNCHANGED <<pg_argCount, pg_count, pg_pc, pg_out>>

PgNext ==
    \/ PingConnectionError
    \/ PingResponse
    \/ PingFailed
    \/ PingOtherEvent

-----------------------------------------------------------------------------
(* parquet-dump in CSV format (src/parquet.rs) *)

\* a file: whether it can be opened and read, and the record batches its
\* stream yields; a record batch: its number of rows, and whether the CSV
\* writer can write its columns
PqFile(batches) == [readable |-> TRUE, batches |-> batches]
PqFiles ==
    {[readable |-> FALSE, batches |-> << >>],
     PqFile(<< >>),
     PqFile(<<[rows |-> 2, csv |-> TRUE]>>),
     PqFile(<<[rows |-> 0, csv |-> TRUE], [rows |-> 1, csv |-> TRUE]>>),
     PqFile(<<[rows |-> 1, csv |-> TRUE], [rows |-> 1, csv |-> FALSE]>>),
     PqFile(<<[rows |-> 1, csv |-> FALSE]>>)}

\* a writer built with_header(header) on the empty buffer, then
\* writer.write(batch): the buffer's rows, or the writer's error
CsvWriteHeaderAlways(header, batch) ==
    IF batch.csv
    THEN Ok(<<"header">> \o [k \in 1..batch.rows |-> "record"])
    ELSE Err("arrow")
CsvWrite(header, batch) ==
    IF batch.csv
    THEN Ok((IF header THEN <<"header">> ELSE << >>)
            \o [k \in 1..batch.rows |-> "record"])
    ELSE Err("arrow")

RECURSIVE Concat(_)
\* the batches of the files, file after file
Concat(fs) ==
    IF fs = << >> THEN << >> ELSE Head(fs) \o Concat(Tail(fs))

PqInit ==
    /\ pq_files \in SeqsUpTo(PqFiles, MaxBlocks)
    /\ pq_pc = "entry"
    /\ pq_batches = << >>
    /\ pq_header = TRUE
    /\ pq_i = 1
    /\ pq_out = << >>
    /\ pq_result = "none"

PqIdle ==
    /\ pq_files = << >>
    /\ pq_pc = "idle"
    /\ pq_batches = << >>
    /\ pq_header = TRUE
    /\ pq_i = 1
    /\ pq_out = << >>
    /\ pq_result = "none"

\* File::open, the stream builder or try_next fails for some file
ParquetDumpReadFails ==
    /\ pq_pc = "entry"
    /\ \E f \in DOMAIN pq_files : ~pq_files[f].readable
    /\ pq_result' = "Err: parquet"
    /\ pq_pc' = "done"
    /\ UNCHANGED pqOther
    /\ UNCHANGED <<pq_files, pq_batches, pq_header, pq_i, pq_out>>

\* every batch of every file is pushed to batches; PrintFormat::Csv sets
\* header to true
ParquetDumpRead ==
    /\ pq_pc = "entry"
    /\ \A f \in DOMAIN pq_files : pq_files[f].readable
    /\ pq_batches' = Concat([f \in DOMAIN pq_files |-> pq_files[f].batches])
    /\ pq_header' = TRUE
    /\ pq_pc' = "csv"
    /\ UNCHANGED pqOther
    /\ UNCHANGED <<pq_files, pq_i, pq_out, pq_result>>

\* one turn of for batch in &batches: the batch is written to the buffer,
\* header becomes false, the buffer goes to stdout and is cleared
ParquetCsvBatch ==
    /\ pq_pc = "csv"
    /\ pq_i <= Len(pq_batches)
    /\ CsvWrite(pq_header, pq_batches[pq_i]).ok
    /\ pq_out' = Append(pq_out, CsvWrite(pq_header, pq_batches[pq_i]).val)
    /\ pq_header' = FALSE
    /\ pq_i' = pq_i + 1
    /\ UNCHANGED pqOther
    /\ UNCHANGED <<pq_files, pq_pc, pq_batches, pq_result>>

\* writer.write(batch)? fails: nothing of the batch reaches stdout
ParquetCsvWriteFails ==
    /\ pq_pc = "csv"
    /\ pq_i <= Len(pq_batches)
    /\ ~CsvWrite(pq_header, pq_batches[pq_i]).ok
    /\ pq_result' = "Err: " \o CsvWrite(pq_header, pq_batches[pq_i]).err
    /\ pq_pc' = "done"
    /\ UNCHANGED pqOther
    /\ UNCHANGED <<pq_files, pq_batches, pq_header, pq_i, pq_out>>

\* the loop is over: Ok(())
ParquetCsvEnd ==
    /\ pq_pc = "csv"
    /\ pq_i > Len(pq_batches)
    /\ pq_result' = "Ok"
    /\ pq_pc' = "done"
    /\ UNCHANGED pqOther
    /\ UNCHANGED <<pq_files, pq_batches, pq_header, pq_i, pq_out>>

PqNext ==
    \/ ParquetDumpReadFails
    \/ ParquetDumpRead
    \/ ParquetCsvBatch
    \/ ParquetCsvWriteFails
    \/ ParquetCsvEnd

-----------------------------------------------------------------------------
(* multibase encode and decode (src/multibase.rs) *)

\* multibase::Base: the code that starts an encoded text, the alphabet (a
\* digit is the place of its character less one), and the bits a character
\* holds (0 for the bases that write the input as one number in the radix
\* of the alphabet)
BaseOf ==
    LET
        BASE2 ==
            <<"0", "1">>
        BASE8 ==
            <<"0", "1", "2", "3", "4", "5", "6", "7">>
        BASE10 ==
            <<"0", "1", "2", "3", "4", "5", "6", "7", "8", "9">>
        BASE16_LOWER ==
            <<"0", "1", "2", "3", "4", "5", "6", "7", "8", "9", "a", "b", "c", "d",
              "e", "f">>
        BASE16_UPPER ==
            <<"0", "1", "2", "3", "4", "5", "6", "7", "8", "9", "A", "B", "C", "D",
              "E", "F">>
        BASE32HEX_LOWER ==
            <<"0", "1", "2", "3", "4", "5", "6", "7", "8", "9", "a", "b", "c", "d",
              "e", "f", "g", "h", "i", "j", "k", "l", "m", "n", "o", "p", "q", "r",
              "s", "t", "u", "v">>
        BASE32HEX_UPPER ==
            <<"0", "1", "2", "3", "4", "5", "6", "7", "8", "9", "A", "B", "C", "D",
              "E", "F", "G", "H", "I", "J", "K", "L", "M", "N", "O", "P", "Q", "R",
              "S", "T", "U", "V">>
        BASE32_LOWER ==
            <<"a", "b", "c", "d", "e", "f", "g", "h", "i", "j", "k", "l", "m", "n",
              "o", "p", "q", "r", "s", "t", "u", "v", "w", "x", "y", "z", "2", "3",
              "4", "5", "6", "7">>
        BASE32_UPPER ==
            <<"A", "B", "C", "D", "E", "F", "G", "H", "I", "J", "K", "L", "M", "N",
              "O", "P", "Q", "R", "S", "T", "U", "V", "W", "X", "Y", "Z", "2", "3",
              "4", "5", "6", "7">>
        BASE32Z ==
            <<"y", "b", "n", "d", "r", "f", "g", "8", "e", "j", "k", "m", "c", "p",
              "q", "x", "o", "t", "1", "u", "w", "i", "s", "z", "a", "3", "4", "5",
              "h", "7", "6", "9">>
        BASE36_LOWER ==
            <<"0", "1", "2", "3", "4", "5", "6", "7", "8", "9", "a", "b", "c", "d",
              "e", "f", "g", "h", "i", "j", "k", "l", "m", "n", "o", "p", "q", "r",
              "s", "t", "u", "v", "w", "x", "y", "z">>
        BASE36_UPPER ==
            <<"0", "1", "2", "3", "4", "5", "6", "7", "8", "9", "A", "B", "C", "D",
              "E", "F", "G", "H", "I", "J", "K", "L", "M", "N", "O", "P", "Q", "R",
              "S", "T", "U", "V", "W", "X", "Y", "Z">>
        BASE58_FLICKR ==
            <<"1", "2", "3", "4", "5", "6", "7", "8", "9", "a", "b", "c", "d", "e",
              "f", "g", "h", "i", "j", "k", "m", "n", "o", "p", "q", "r", "s", "t",
              "u", "v", "w", "x", "y", "z", "A", "B", "C", "D", "E", "F", "G", "H",
              "J", "K", "L", "M", "N", "P", "Q", "R", "S", "T", "U", "V", "W", "X",
              "Y", "Z">>
        BASE58_BITCOIN ==
            <<"1", "2", "3", "4", "5", "6", "7", "8", "9", "A", "B", "C", "D", "E",
              "F", "G", "H", "J", "K", "L", "M", "N", "P", "Q", "R", "S", "T", "U",
              "V", "W", "X", "Y", "Z", "a", "b", "c", "d", "e", "f", "g", "h", "i",
              "j", "k", "m", "n", "o", "p", "q", "r", "s", "t", "u", "v", "w", "x",
              "y", "z">>
        BASE64 ==
            <<"A", "B", "C", "D", "E", "F", "G", "H", "I", "J", "K", "L", "M", "N",
              "O", "P", "Q", "R", "S", "T", "U", "V", "W", "X", "Y", "Z", "a", "b",
              "c", "d", "e", "f", "g", "h", "i", "j", "k", "l", "m", "n", "o", "p",
              "q", "r", "s", "t", "u", "v", "w", "x", "y", "z", "0", "1", "2", "3",
              "4", "5", "6", "7", "8", "9", "+", "/">>
        BASE64URL ==
            <<"A", "B", "C", "D", "E", "F", "G", "H", "I", "J", "K", "L", "M", "N",
              "O", "P", "Q", "R", "S", "T", "U", "V", "W", "X", "Y", "Z", "a", "b",
              "c", "d", "e", "f", "g", "h", "i", "j", "k", "l", "m", "n", "o", "p",
              "q", "r", "s", "t", "u", "v", "w", "x", "y", "z", "0", "1", "2", "3",
              "4", "5", "6", "7", "8", "9", "-", "_">>
    IN  [Base2 |-> [code |-> "0", alphabet |-> BASE2, bits |-> 1],
         Base8 |-> [code |-> "7", alphabet |-> BASE8, bits |-> 3],
         Base10 |-> [code |-> "9", alphabet |-> BASE10, bits |-> 0],
         Base16Lower |-> [code |-> "f", alphabet |-> BASE16_LOWER, bits |-> 4],
         Base16Upper |-> [code |-> "F", alphabet |-> BASE16_UPPER, bits |-> 4],
         Base32HexLower |->
             [code |-> "v", alphabet |-> BASE32HEX_LOWER, bits |-> 5],
         Base32HexUpper |->
             [code |-> "V", alphabet |-> BASE32HEX_UPPER, bits |-> 5],
         Base32Lower |-> [code |-> "b", alphabet |-> BASE32_LOWER, bits |-> 5],
         Base32Upper |-> [code |-> "B", alphabet |-> BASE32_UPPER, bits |-> 5],
         Base32Z |-> [code |-> "h", alphabet |-> BASE32Z, bits |-> 5],
         Base36Lower |-> [code |-> "k", alphabet |-> BASE36_LOWER, bits |-> 0],
         Base36Upper |-> [code |-> "K", alphabet |-> BASE36_UPPER, bits |-> 0],
         Base58Flickr |->
             [code |-> "Z", alphabet |-> BASE58_FLICKR, bits |-> 0],
         Base58Btc |-> [code |-> "z", alphabet |-> BASE58_BITCOIN, bits |-> 0],
         Base64 |-> [code |-> "m", alphabet |-> BASE64, bits |-> 6],
         Base64Url |-> [code |-> "u", alphabet |-> BASE64URL, bits |-> 6]]

\* the encode subcommands and the Base each hands to encode
OperationBase ==
    [Base2 |-> "Base2", Base8 |-> "Base8", Base10 |-> "Base10",
     Base16 |-> "Base16Lower", Base16Upper |-> "Base16Upper",
     Base32Hex |-> "Base32HexLower", Base32HexUpper |-> "Base32HexUpper",
     Base32 |-> "Base32Lower", Base32Upper |-> "Base32Upper",
     Base32Z |-> "Base32Z", Base36 |-> "Base36Lower",
     Base36Upper |-> "Base36Upper", Base58Flickr |-> "Base58Flickr",
     Base58Btc |-> "Base58Btc", Base64 |-> "Base64",
     Base64Url |-> "Base64Url"]

RECURSIVE Pow2(_)
Pow2(n) == IF n = 0 THEN 1 ELSE 2 * Pow2(n - 1)

RECURSIVE ToNat(_, _)
\* the number a sequence of digits writes in a radix, first digit highest
ToNat(digits, radix) ==
    IF digits = << >> THEN 0
    ELSE ToNat(SubSeq(digits, 1, Len(digits) - 1), radix) * radix
         + digits[Len(digits)]

RECURSIVE FixedDigits(_, _, _)
\* the len lowest digits of n in a radix, first digit highest
FixedDigits(n, radix, len) ==
    IF len = 0 THEN << >>
    ELSE Append(FixedDigits(n \div radix, radix, len - 1), n % radix)

RECURSIVE MinimalDigits(_, _)
\* the digits of n in a radix without leading zeros; none for zero
MinimalDigits(n, radix) ==
    IF n = 0 THEN << >>
    ELSE Append(MinimalDigits(n \div radix, radix), n % radix)

\* the number of elements equal to x that s starts with
Leaders(s, x) ==
    Cardinality({k \in DOMAIN s : \A j \in 1..k : s[j] = x})

\* the place of a character in an alphabet, less one
DigitOf(alphabet, c) ==
    (CHOOSE k \in DOMAIN alphabet : alphabet[k] = c) - 1

\* the characters of a sequence of digits
Symbols(alphabet, digits) ==
    [k \in DOMAIN digits |-> alphabet[digits[k] + 1]]

\* data_encoding, most significant bit first and without padding: the bits
\* of the input in groups of `bits`, the last group filled with zero bits
BitsEncode(bits, alphabet, input) ==
    LET len == (8 * Len(input) + bits - 1) \div bits
        fill == len * bits - 8 * Len(input)
    IN  Symbols(alphabet,
                FixedDigits(ToNat(input, 256) * Pow2(fill), Pow2(bits), len))

\* data_encoding's decode: a character outside the alphabet, a length that
\* leaves a whole character of trailing bits, and trailing bits that are
\* not zero are errors
BitsDecode(bits, alphabet, text) ==
    LET len == (Len(text) * bits) \div 8
        trailing == Len(text) * bits - 8 * len
    IN
    IF \E k \in DOMAIN text : text[k] \notin Range(alphabet)
    THEN Err("InvalidBaseString")
    ELSE IF trailing >= bits THEN Err("InvalidBaseString")
    ELSE LET n == ToNat([k \in DOMAIN text |-> DigitOf(alphabet, text[k])],
                        Pow2(bits))
         IN  IF n % Pow2(trailing) # 0 THEN Err("InvalidBaseString")
             ELSE Ok(FixedDigits(n \div Pow2(trailing), 256, len))

\* base_x::encode: the input as one number in the radix of the alphabet,
\* after one zero digit for each zero byte that leads all bytes but the last
RadixEncode(alphabet, input) ==
    IF input = << >> THEN << >>
    ELSE LET n == ToNat(input, 256)
             digits == IF n = 0 THEN <<0>>
                       ELSE MinimalDigits(n, Len(alphabet))
             leaders == Leaders(SubSeq(input, 1, Len(input) - 1), 0)
         IN  Symbols(alphabet, [k \in 1..leaders |-> 0] \o digits)

\* base_x::decode: the bytes of the number, after one zero byte for each
\* leading character that is the first of the alphabet
RadixDecode(alphabet, text) ==
    IF text = << >> THEN Ok(<< >>)
    ELSE IF \E k \in DOMAIN text : text[k] \notin Range(alphabet)
    THEN Err("InvalidBaseString")
    ELSE LET n == ToNat([k \in DOMAIN text |-> DigitOf(alphabet, text[k])],
                        Len(alphabet))
         IN  Ok([k \in 1..Leaders(text, alphabet[1]) |-> 0]
                \o MinimalDigits(n, 256))

\* to_ascii_lowercase and to_ascii_uppercase, of the characters of base 36
ToAsciiCase(text, from, to) ==
    [k \in DOMAIN text |->
        IF text[k] \in Range(from) THEN to[DigitOf(from, text[k]) + 1]
        ELSE text[k]]

\* Base::encode
BaseEncode(base, input) ==
    IF BaseOf[base].bits = 0
    THEN RadixEncode(BaseOf[base].alphabet, input)
    ELSE BitsEncode(BaseOf[base].bits, BaseOf[base].alphabet, input)

\* Base::decode; base 36 takes its input in either case
BaseDecode(base, text) ==
    CASE base = "Base36Lower" ->
           RadixDecode(BaseOf.Base36Lower.alphabet,
                       ToAsciiCase(text, BaseOf.Base36Upper.alphabet,
                                   BaseOf.Base36Lower.alphabet))
      [] base = "Base36Upper" ->
           RadixDecode(BaseOf.Base36Upper.alphabet,
                       ToAsciiCase(text, BaseOf.Base36Lower.alphabet,
                                   BaseOf.Base36Upper.alphabet))
      [] OTHER ->
           IF BaseOf[base].bits = 0
           THEN RadixDecode(BaseOf[base].alphabet, text)
           ELSE BitsDecode(BaseOf[base].bits, BaseOf[base].alphabet, text)

\* multibase::encode(base, input): the code of the base, then the digits
MultibaseEncode(base, input) ==
    <<BaseOf[base].code>> \o BaseEncode(base, input)

\* multibase::decode(input): the base of the first character decodes the
\* rest
MultibaseDecode(text) ==
    IF text = << >> THEN Err("InvalidBaseString")
    ELSE LET bases == {b \in DOMAIN BaseOf : BaseOf[b].code = text[1]} IN
         IF bases = {} THEN Err("UnknownBase")
         ELSE LET base == CHOOSE b \in bases : TRUE
                  bytes == BaseDecode(base, Tail(text))
              IN  IF bytes.ok THEN Ok(<<base, bytes.val>>) ELSE bytes

\* the values of the bytes of the inputs
MbByteValues == {0, 1, 255}

\* the white space around the encoded text on the stdin of base-decode
MbLeads == {<< >>, <<" ">>, <<"\n">>}
MbTrails == {<< >>, <<"\n">>, <<" ", "\n">>}

MbInit ==
    /\ mb_op \in DOMAIN OperationBase
    /\ mb_input \in SeqsUpTo(MbByteValues, MaxBytes)
    /\ mb_lead \in MbLeads
    /\ mb_trail \in MbTrails
    /\ mb_pc = "entry"
    /\ mb_encoded = << >>
    /\ mb_decoded = Err("none")

MbIdle ==
    /\ mb_op = "Base2"
    /\ mb_input = << >>
    /\ mb_lead = << >>
    /\ mb_trail = << >>
    /\ mb_pc = "idle"
    /\ mb_encoded = << >>
    /\ mb_decoded = Err("none")

\* encode(stdin, stdout, base): the encoded input_bytes goes to stdout
Encode ==
    /\ mb_pc = "entry"
    /\ mb_encoded' = MultibaseEncode(OperationBase[mb_op], mb_input)
    /\ mb_pc' = "encoded"
    /\ UNCHANGED mbOther
    /\ UNCHANGED <<mb_op, mb_input, mb_lead, mb_trail, mb_decoded>>

\* Operation::Decode on the encoded text with white space around it:
\* input_utf8, trim_end, multibase::decode, and the bytes go to stdout
Decode ==
    /\ mb_pc = "encoded"
    /\ LET str == FromUtf8(mb_lead \o mb_encoded \o mb_trail)
           decoded == MultibaseDecode(TrimEnd(str.val))
       IN  mb_decoded' = IF ~str.ok THEN str
                         ELSE IF decoded.ok THEN Ok(decoded.val[2])
                         ELSE decoded
    /\ mb_pc' = "decoded"
    /\ UNCHANGED mbOther
    /\ UNCHANGED <<mb_op, mb_input, mb_lead, mb_trail, mb_encoded>>

MbNext ==
    \/ Encode
    \/ Decode

-----------------------------------------------------------------------------
(* Specifications *)

InitLoadGen ==
    LgInit /\ ThIdle /\ RnIdle /\ CbIdle /\ CfIdle /\ CeIdle /\ CiIdle /\
    CnIdle /\ PgIdle /\ PqIdle /\ MbIdle
SpecLoadGen == InitLoadGen /\ [][LgNext]_vars

InitThrottle ==
    ThInit /\ LgIdle /\ RnIdle /\ CbIdle /\ CfIdle /\ CeIdle /\ CiIdle /\
    CnIdle /\ PgIdle /\ PqIdle /\ MbIdle
SpecThrottle == InitThrottle /\ [][ThNext]_vars

InitRun ==
    RnInit /\ LgIdle /\ ThIdle /\ CbIdle /\ CfIdle /\ CeIdle /\ CiIdle /\
    CnIdle /\ PgIdle /\ PqIdle /\ MbIdle
SpecRun == InitRun /\ [][RnNext]_vars

InitCarBlock ==
    CbInit /\ LgIdle /\ ThIdle /\ RnIdle /\ CfIdle /\ CeIdle /\ CiIdle /\
    CnIdle /\ PgIdle /\ PqIdle /\ MbIdle
SpecCarBlock == InitCarBlock /\ [][CbNext]_vars

InitCarFromBlocks ==
    CfInit /\ LgIdle /\ ThIdle /\ RnIdle /\ CbIdle /\ CeIdle /\ CiIdle /\
    CnIdle /\ PgIdle /\ PqIdle /\ MbIdle
SpecCarFromBlocks == InitCarFromBlocks /\ [][CfNext]_vars

InitCarExtract ==
    CeInit /\ LgIdle /\ ThIdle /\ RnIdle /\ CbIdle /\ CfIdle /\ CiIdle /\
    CnIdle /\ PgIdle /\ PqIdle /\ MbIdle
SpecCarExtract == InitCarExtract /\ [][CeNext]_vars

InitCarInspect ==
    CiInit /\ LgIdle /\ ThIdle /\ RnIdle /\ CbIdle /\ CfIdle /\ CeIdle /\
    CnIdle /\ PgIdle /\ PqIdle /\ MbIdle
SpecCarInspect == InitCarInspect /\ [][CiNext]_vars

InitCidInspect ==
    CnInit /\ LgIdle /\ ThIdle /\ RnIdle /\ CbIdle /\ CfIdle /\ CeIdle /\
    CiIdle /\ PgIdle /\ PqIdle /\ MbIdle
SpecCidInspect == InitCidInspect /\ [][CnNext]_vars

InitPing ==
    PgInit /\ LgIdle /\ ThIdle /\ RnIdle /\ CbIdle /\ CfIdle /\ CeIdle /\
    CiIdle /\ CnIdle /\ PqIdle /\ MbIdle
SpecPing == InitPing /\ [][PgNext]_vars

InitParquetCsv ==
    PqInit /\ LgIdle /\ ThIdle /\ RnIdle /\ CbIdle /\ CfIdle /\ CeIdle /\
    CiIdle /\ CnIdle /\ PgIdle /\ MbIdle
SpecParquetCsv == InitParquetCsv /\ [][PqNext]_vars

InitMultibase ==
    MbInit /\ LgIdle /\ ThIdle /\ RnIdle /\ CbIdle /\ CfIdle /\ CeIdle
    /\ CiIdle /\ CnIdle /\ PgIdle /\ PqIdle
SpecMultibase == InitMultibase /\ [][MbNext]_vars

-----------------------------------------------------------------------------
(* Properties of load_gen *)

Sends(i) == Cardinality({k \in DOMAIN lg_sent : lg_sent[k] = i})
InFlight == {i \in DOMAIN lg_fut : lg_fut[i].st = "inflight"}
Failed == {i \in DOMAIN lg_fut : lg_fut[i].st = "failed"}
SentPos(i) == CHOOSE k \in DOMAIN lg_sent : lg_sent[k] = i

\* C1: with count >= 1 and rate absent or >= 1, never more than `count`
\* anchor requests are sent and never more than `count` lines printed; while
\* no request has failed the run can always go on; and when load_gen returns
\* Ok each of the items 0..count-1 was sent exactly once (`count` requests)
\* and exactly `count` lines were printed.
C1_FixedCount ==
    (lg_pc \in {"running", "ok", "panicked"} /\ lg_count >= 1
        /\ lg_rate # Some(0)) =>
        /\ Len(lg_sent) <= lg_count
        /\ Len(lg_out) <= lg_count
        /\ (lg_pc = "running" => ENABLED LgNext)
        /\ (lg_pc = "ok" =>
               /\ Len(lg_sent) = lg_count
               /\ \A i \in 0..(lg_count - 1) : Sends(i) = 1
               /\ Len(lg_out) = lg_count)

\* a rate-limited run of two or more requests that returned Ok
C1_Witness ==
    /\ lg_pc = "ok"
    /\ lg_count >= 2
    /\ lg_rate # None
    /\ Len(lg_sent) = lg_count
    /\ Len(lg_out) = lg_count

\* C2: no item is sent twice; a failed request panics the run, which then
\* takes no further step (nothing is re-sent, nothing more is printed, Ok is
\* never returned), and no line is printed for the failed item.
C2_NoRetry ==
    /\ \A i \in DOMAIN lg_fut : Sends(i) <= 1
    /\ \A i \in Failed :
          /\ lg_pc = "panicked"
          /\ \A k \in DOMAIN lg_out : lg_out[k].item # i
    /\ (lg_pc = "panicked" => Failed # {} /\ ~ENABLED LgNext)
    /\ (lg_pc = "ok" => Failed = {})

\* a request failed after another was printed and while a third is in flight
C2_Witness ==
    /\ lg_pc = "panicked"
    /\ Len(lg_out) >= 1
    /\ InFlight # {}

\* C4: while load_gen runs, the next stream item can always be taken and a
\* sleeping item whose instant has come can always be dispatched, whatever
\* the state of the other requests.
C4_NoBackpressure ==
    lg_pc = "running" =>
        /\ (lg_pulled < lg_count => ENABLED Pull)
        /\ \A i \in DOMAIN lg_fut :
              (lg_fut[i].st = "sleeping" /\ now >= lg_fut[i].due) =>
                  ENABLED Wake(i)

\* all `count` requests in flight at once
C4_Witness ==
    /\ lg_pc = "running"
    /\ lg_count >= 2
    /\ Cardinality(InFlight) = lg_count

\* C5: the k-th line printed carries count k, whichever item it is for.
C5_CompletionOrder ==
    \A k \in DOMAIN lg_out : lg_out[k].count = k

\* an item dispatched later is printed before one dispatched earlier
C5_Witness ==
    \E k1, k2 \in DOMAIN lg_out :
        /\ k1 < k2
        /\ SentPos(lg_out[k1].item) > SentPos(lg_out[k2].item)
        /\ lg_out[k1].item > lg_out[k2].item

\* C16: the counts printed are pairwise distinct; the counter is 1 plus the
\* number of lines printed, so it started at 1, went up by one with each
\* successful request and never with a failed one; when all requests
\* succeeded the counts printed are exactly 1..n.
C16_CounterRaceFree ==
    /\ \A k1, k2 \in DOMAIN lg_out :
          k1 # k2 => lg_out[k1].count # lg_out[k2].count
    /\ (lg_pc \in {"entry", "running", "ok", "panicked"} =>
          /\ lg_counter = 1 + Len(lg_out)
          /\ Len(lg_out) =
                Cardinality({i \in DOMAIN lg_fut : lg_fut[i].st = "done"}))
    /\ (lg_pc = "ok" /\ lg_count >= 1 /\ lg_rate # Some(0)) =>
          {lg_out[k].count : k \in DOMAIN lg_out} = 1..lg_count

\* every request succeeded, the last item first
C16_Witness ==
    /\ lg_pc = "ok"
    /\ lg_count >= 2
    /\ Len(lg_out) = lg_count
    /\ lg_out[1].item = lg_count - 1
    /\ lg_out[1].count = 1
    /\ lg_counter = lg_count + 1

-----------------------------------------------------------------------------
(* Properties of throttled_stream *)

\* whether d >= i * iv, for an instant d of the model (below 2^31) and an
\* index i = hi * 2^32 + lo
AtLeastProduct(d, i, iv) ==
    IF i.hi = 0 \/ iv = 0 THEN d >= i.lo * iv ELSE FALSE

\* C3: with rate r the request of item i is sent no earlier than
\* start + i * floor(1_000_000_000 / r); with no rate it is due at once.
C3_RateLimit ==
    /\ (th_pc = "sent" /\ th_rate # None) =>
          AtLeastProduct(th_sentAt - th_start, th_i,
                         NanosPerSec \div Unwrap(th_rate))
    /\ (th_pc \in {"sleeping", "sent"} /\ th_rate = None) =>
          th_due = th_start

-----------------------------------------------------------------------------
(* Properties of run *)

\* the order the claim names, restricted to the categories built in
ClaimedOrder ==
    SelectSeq(<<"multibase", "ipld", "ceramic", "multihash", "p2p", "parquet">>,
              LAMBDA c : c \in rn_features)
Accepting == {k \in DOMAIN ClaimedOrder : Accepts(ClaimedOrder[k], rn_cmd)}
FirstAccepting == CHOOSE k \in Accepting : \A j \in Accepting : k <= j

\* what C6 says of a command that is handed to the categories
DispatchedInOrder ==
    /\ Len(rn_ran) <= 1
    /\ (rn_pc = "done" /\ Accepting # {}) =>
          /\ rn_tried = SubSeq(ClaimedOrder, 1, FirstAccepting)
          /\ rn_ran = <<ClaimedOrder[FirstAccepting]>>
          /\ rn_result \in {"Ok", "Err"}
          /\ ~rn_procOut

\* C6 as stated: the categories are tried in the fixed order and the first
\* that accepts runs, alone; a command no category accepts yields "failed to
\* match command" with nothing written to stdout.
C6_AsStated ==
    /\ DispatchedInOrder
    /\ (rn_pc = "done" /\ Accepting = {}) =>
          /\ rn_result = "failed to match command"
          /\ rn_ran = << >>
          /\ ~rn_stdout /\ ~rn_procOut

\* C6 amended: as stated, for every command but Completion; Completion is
\* handled before any category is tried: the completion script goes to the
\* process's stdout, no category runs and run returns Ok.
C6_Dispatch ==
    /\ DispatchedInOrder
    /\ (rn_pc = "done" /\ Accepting = {} /\ rn_cmd # "Completion") =>
          /\ rn_tried = ClaimedOrder
          /\ rn_result = "failed to match command"
          /\ rn_ran = << >>
          /\ ~rn_stdout /\ ~rn_procOut
    /\ (rn_pc = "done" /\ rn_cmd = "Completion") =>
          /\ rn_tried = << >>
          /\ rn_ran = << >>
          /\ rn_result = "Ok"
          /\ ~rn_stdout /\ rn_procOut

\* a command of the third category is run after two categories refused it
C6_Witness ==
    /\ rn_pc = "done"
    /\ rn_features = Features
    /\ rn_cmd = "PeerIdGenerate"
    /\ rn_tried = <<"multibase", "ipld", "ceramic">>
    /\ rn_ran = <<"ceramic">>

-----------------------------------------------------------------------------
(* Properties of CarBlockValue::from_str *)

FormError == "car block must be in the form cid:path/to/block"

\* the places of ':' in the argument, and the first of them
Colons == {k \in DOMAIN cb_arg : cb_arg[k] = ":"}
FirstColon == CHOOSE k \in Colons : \A j \in Colons : k <= j
\* the number of '@' the argument starts with
LeadingAts ==
    CHOOSE n \in 0..Len(cb_arg) :
        /\ \A k \in 1..n : cb_arg[k] = "@"
        /\ (n < Len(cb_arg) => cb_arg[n + 1] # "@")

\* what from_str returns when the CID is the text between the first
\* `skip` characters and the first ':' and the path is all that follows
ParsedAfter(skip) ==
    /\ (Colons = {} => cb_res = Err(FormError))
    /\ (Colons # {} =>
          LET text == SubSeq(cb_arg, skip + 1, FirstColon - 1) IN
          IF Len(text) = 1 /\ text[1] \in DOMAIN CidOfText
          THEN /\ cb_res.ok
               /\ cb_res.val.root = (cb_arg[1] = "@")
               /\ cb_res.val.cid = CidOfText[text[1]]
               /\ cb_res.val.path =
                      SubSeq(cb_arg, FirstColon + 1, Len(cb_arg))
          ELSE ~cb_res.ok)

\* C7 as stated: one leading '@' is the root marker; the CID is the text
\* between the marker, if any, and the first ':'; the path is all that
\* follows the first ':'; no ':' gives the form error and an unparsable CID
\* text is rejected.
C7_AsStated ==
    cb_pc = "parsed" =>
        ParsedAfter(IF cb_arg # << >> /\ cb_arg[1] = "@" THEN 1 ELSE 0)

\* C7 amended: as stated, with every leading '@' taken off before the CID
\* text is read.
C7_FromStr ==
    cb_pc = "parsed" => ParsedAfter(LeadingAts)

\* a root argument whose path holds a ':'
C7_Witness ==
    /\ cb_pc = "parsed"
    /\ cb_res.ok
    /\ cb_res.val.root
    /\ ":" \in Range(cb_res.val.path)

-----------------------------------------------------------------------------
(* Properties of car-from-blocks *)

\* the arguments marked as root, and the j-th of them in argument order
RootArgs == {k \in DOMAIN cf_blocks : cf_blocks[k].root}
NthRootArg(j) ==
    CHOOSE k \in RootArgs : Cardinality({m \in RootArgs : m <= k}) = j

\* the (cid, data) blocks of the first n arguments, in argument order
ArgBlocks(n) ==
    [k \in 1..n |-> [cid |-> cf_blocks[k].cid,
                     data |-> FileData[cf_blocks[k].path]]]

\* C8: the blocks of the CAR are the arguments' (cid, data), in argument
\* order, all through the loop and in what stdout receives; the roots of
\* the header are the CIDs of the arguments marked as root, in argument order.
C8_BlocksInOrder ==
    /\ (cf_pc \in {"loop", "done"} =>
          cf_car.blocks = ArgBlocks(Len(cf_car.blocks)))
    /\ (cf_pc = "done" /\ cf_result = "Ok") =>
          /\ cf_stdout # None
          /\ Unwrap(cf_stdout).blocks = ArgBlocks(Len(cf_blocks))
          /\ LET roots == Unwrap(Unwrap(cf_stdout).header) IN
                /\ Len(roots) = Cardinality(RootArgs)
                /\ \A j \in DOMAIN roots :
                      roots[j] = cf_blocks[NthRootArg(j)].cid

\* two different blocks, the second one a root, written and sent to stdout
C8_Witness ==
    /\ cf_pc = "done"
    /\ cf_result = "Ok"
    /\ Len(cf_blocks) = 2
    /\ cf_blocks[1].cid # cf_blocks[2].cid
    /\ ~cf_blocks[1].root
    /\ cf_blocks[2].root
    /\ Unwrap(cf_stdout).blocks = ArgBlocks(2)

\* an argument whose file cannot be read, whose hash code is unsupported or
\* whose data does not hash to the CID's multihash
BadBlock(k) ==
    \/ cf_blocks[k].path \notin DOMAIN FileData
    \/ cf_blocks[k].cid.hash.code \notin SupportedCodes
    \/ Digest(cf_blocks[k].cid.hash.code, FileData[cf_blocks[k].path])
           # cf_blocks[k].cid.hash

\* C9: with a bad block at any position the command ends with an error and
\* stdout receives nothing; stdout receives the CAR only when every block
\* was verified and written to the buffer; the command never stops short of
\* its end.
C9_VerifiedBeforeOutput ==
    /\ (cf_pc = "done" /\ \E k \in DOMAIN cf_blocks : BadBlock(k)) =>
          /\ cf_result \notin {"Ok", "none"}
          /\ cf_stdout = None
    /\ (cf_stdout # None =>
          /\ \A k \in DOMAIN cf_blocks : ~BadBlock(k)
          /\ cf_stdout = Some(cf_car)
          /\ cf_car.header # None
          /\ Len(cf_car.blocks) = Len(cf_blocks))
    /\ (cf_pc \in {"entry", "loop"} => ENABLED CfNext)

\* a bad second block after a good first one: one block in the buffer,
\* nothing on stdout
C9_Witness ==
    /\ cf_pc = "done"
    /\ cf_result = "Err: hash does not match"
    /\ cf_i = 2
    /\ Len(cf_car.blocks) = 1
    /\ cf_stdout = None

-----------------------------------------------------------------------------
(* Properties of car-extract *)

\* the blocks of the archive that have the requested CID
Matching == {k \in DOMAIN ce_stdin.blocks : Some(ce_stdin.blocks[k].cid) = ce_find}

\* C10: car-extract writes the data of exactly one block, the block whose
\* CID is the requested one, and nothing when the archive has no such block.
C10_SingleBlock ==
    (ce_pc = "done" /\ ce_result = "Ok") =>
        IF Matching = {}
        THEN ce_written = << >>
        ELSE \E k \in Matching : ce_written = <<ce_stdin.blocks[k].data>>

-----------------------------------------------------------------------------
(* Properties of car-inspect *)

\* the CID and metadata writes, in order
CiListing ==
    SelectSeq(ci_out, LAMBDA w : w.kind \in {"cid", "meta"})

\* the block whose metadata the k-th pair of CiListing must be
CiListed(k) ==
    LET b == ci_stdin.blocks[k] IN
    /\ CiListing[2 * k - 1] = [kind |-> "cid", text |-> FmtCid(b.cid)]
    /\ CiListing[2 * k].kind = "meta"
    /\ CiListing[2 * k].text.root =
         (\E r \in DOMAIN ci_stdin.roots : ci_stdin.roots[r] = b.cid)
    /\ CiListing[2 * k].text.length = Len(b.data)

\* the blocks whose content car-inspect would decode to an error
CiUndecodable ==
    {k \in DOMAIN ci_stdin.blocks :
        \/ /\ ci_stdin.blocks[k].cid.codec = "dag-cbor"
           /\ ci_stdin.blocks[k].data \notin {<<1>>, <<49>>}
        \/ /\ ci_stdin.blocks[k].cid.codec = "dag-json"
           /\ ci_stdin.blocks[k].data # <<49>>
        \/ ci_stdin.blocks[k].cid.codec = "dag-jose"}

\* C11: the blocks are listed in archive order, each with Root true exactly
\* when its CID is among the header's roots and Length the length of its
\* data, and all of them when car-inspect returns Ok; with metadata_only no
\* content is written and no decoder's error is returned, so an archive that
\* reads to its end is listed whole whatever its blocks hold.
C11_Listing ==
    /\ \E n \in 0..Len(ci_stdin.blocks) :
          /\ Len(CiListing) = 2 * n
          /\ \A k \in 1..n : CiListed(k)
          /\ ci_result = "Ok" => n = Len(ci_stdin.blocks)
    /\ ci_metadataOnly =>
          /\ \A w \in DOMAIN ci_out : ci_out[w].kind \in {"cid", "meta"}
          /\ ci_result \in {"none", "Ok", "Err: car"}
          /\ (ci_pc = "done" /\ ci_stdin.valid /\ ~ci_stdin.truncated) =>
                /\ ci_result = "Ok"
                /\ Len(ci_out) = 2 * Len(ci_stdin.blocks)

\* an archive with a block that does not decode, listed whole with
\* metadata_only, one block a root and one not
C11_Witness ==
    /\ ci_metadataOnly
    /\ ci_result = "Ok"
    /\ CiUndecodable # {}
    /\ Len(ci_out) = 2 * Len(ci_stdin.blocks)
    /\ \E k1, k2 \in DOMAIN ci_stdin.blocks :
          /\ k1 < k2
          /\ ci_out[2 * k1].text.root
          /\ ~ci_out[2 * k2].text.root
          /\ ci_out[2 * k1].text.length # ci_out[2 * k2].text.length

-----------------------------------------------------------------------------
(* Properties of cid-inspect *)

\* what cid-inspect writes and returns for the text of a CID
CnOutcome(text) ==
    IF Len(text) = 1 /\ text[1] \in {"b", "z", "c"}
    THEN [out |-> <<FmtCid(CidOfText[text[1]])>>, result |-> "Ok"]
    ELSE [out |-> << >>, result |-> "Err: cid"]

\* text is what is left of s without the white space around it
CnSurrounded(s, text) ==
    /\ text = << >> \/ (text[1] \notin Whitespace
                       /\ text[Len(text)] \notin Whitespace)
    /\ \E a, b \in 0..Len(s) :
          /\ a + Len(text) + b = Len(s)
          /\ \A k \in 1..a : s[k] \in Whitespace
          /\ \A k \in 1..Len(text) : s[a + k] = text[k]
          /\ \A k \in 1..b : s[a + Len(text) + k] \in Whitespace

\* C12: stdin is read exactly when the argument is "-", and then the CID is
\* the UTF-8 text of stdin without the white space around it; for any other
\* argument the output and the result are those of the argument alone.
C12_StdinFrame ==
    cn_pc = "done" =>
       /\ cn_read <=> cn_arg = <<"-">>
       /\ cn_arg # <<"-">> =>
             [out |-> cn_out, result |-> cn_result] = CnOutcome(cn_arg)
       /\ (cn_arg = <<"-">> /\ NotUtf8 \notin Range(cn_stdin)) =>
             \E n \in 0..Len(cn_stdin) :
                \E text \in [1..n -> Range(cn_stdin)] :
                   /\ CnSurrounded(cn_stdin, text)
                   /\ [out |-> cn_out, result |-> cn_result] =
                         CnOutcome(text)
       /\ (cn_arg = <<"-">> /\ NotUtf8 \in Range(cn_stdin)) =>
             cn_out = << >> /\ cn_result = "Err: utf8"

\* a CID read from stdin with white space before and after it
C12_Witness ==
    /\ cn_pc = "done"
    /\ cn_arg = <<"-">>
    /\ cn_read
    /\ Len(cn_stdin) >= 3
    /\ cn_stdin[1] \in Whitespace
    /\ cn_stdin[Len(cn_stdin)] \in Whitespace
    /\ cn_result = "Ok"
    /\ cn_out # << >>

-----------------------------------------------------------------------------
(* Properties of ping *)

PgResponses ==
    Cardinality({k \in DOMAIN pg_out : pg_out[k] = "response from"})
PgResults ==
    Cardinality({k \in DOMAIN pg_events : pg_events[k] \in {"PingOk", "PingErr"}})

\* C13: for every count >= 0 the number of "response from" lines never
\* exceeds count, and when the connection succeeded and no ping failed the
\* loop has ended after exactly count ping results.
C13_ExitsAfterCount ==
    /\ PgResponses <= pg_argCount
    /\ (/\ pg_pc = "done"
        /\ "OutgoingConnectionError" \notin Range(pg_events)
        /\ "PingErr" \notin Range(pg_events)) => PgResults = pg_argCount

-----------------------------------------------------------------------------
(* Properties of parquet-dump in CSV format *)

\* the rows stdout has received
PqRows == Concat(pq_out)
PqHeaders == {k \in DOMAIN PqRows : PqRows[k] = "header"}

\* C14: once a batch is written the output holds exactly one header row, as
\* its first row; every batch after the first is written without a header;
\* a dump of at least one batch that returns Ok has written them all.
C14_HeaderOnce ==
    /\ pq_out # << >> => PqHeaders = {1}
    /\ pq_out = << >> => PqHeaders = {}
    /\ \A b \in DOMAIN pq_out :
          b > 1 => "header" \notin Range(pq_out[b])
    /\ (pq_result = "Ok" /\ Len(pq_batches) >= 1) =>
          /\ Len(pq_out) = Len(pq_batches)
          /\ PqHeaders = {1}

\* two files, three batches, the first batch without rows
C14_Witness ==
    /\ pq_result = "Ok"
    /\ Len(pq_files) >= 2
    /\ Len(pq_out) >= 3
    /\ pq_out[1] = <<"header">>
    /\ pq_out[2] = <<"record">>
    /\ Cardinality(PqHeaders) = 1

-----------------------------------------------------------------------------
(* Properties of multibase encode and decode *)

\* C15: base-decode of the output of an encode subcommand, with or without
\* white space after it, is the input of the encode subcommand; white space
\* before the encoded text is not ignored, base-decode fails.
C15_RoundTrip ==
    mb_pc = "decoded" =>
       /\ mb_lead = << >> => mb_decoded = Ok(mb_input)
       /\ mb_lead # << >> => ~mb_decoded.ok

\* a round trip of bytes that start with a zero byte, through a base that
\* writes a number, with a line feed after the encoded text
C15_Witness ==
    /\ mb_pc = "decoded"
    /\ mb_op = "Base58Btc"
    /\ Len(mb_input) = 2
    /\ mb_input[1] = 0
    /\ mb_lead = << >>
    /\ mb_trail # << >>
    /\ Len(mb_encoded) = 3
    /\ mb_decoded = Ok(mb_input)

====
